---- MODULE Spec2Model ----
(***************************************************************************)
(* Model of the useApi hook (client/src/hooks/useApi.js): an in-memory,    *)
(* time-bounded cache in front of fetch(), a bounded retry loop with       *)
(* linear backoff, and cancellation through an AbortController kept in a   *)
(* ref.  Every execute() call is a process with a position in the async    *)
(* function.  Spec drives one mounted hook instance through execute(),     *)
(* abort() and clearCache(); SpecOverride adds per-call overrides,         *)
(* SpecEffects the mount / re-render / unmount effects, and SpecTwo a      *)
(* second, independent hook instance.                                      *)
(***************************************************************************)
EXTENDS Integers, Sequences, FiniteSets, TLC

\* ---- bounds of the model ------------------------------------------------
MaxCalls == 2
MaxTime == 3
MaxRetry == 1

\* ---- values -------------------------------------------------------------
Null == "null"
NullStatus == 0
NullHeader == <<Null>>
Bodies == {"d1", "d2"}
Statuses == {200, 500}
CacheTimes == {0, 1, 2}
RetryDelays == {0, 1}
Methods == {"GET", "POST"}

\* objects are sequences of "key:value" entries in insertion order
NullObject == <<Null>>
EmptyObject == << >>

\* the endpoint argument and the body / headers options of the hook
endpoint == "/api/posts"
body == NullObject
headers == EmptyObject

\* what a caller may pass to execute(requestBody, requestHeaders)
RequestBodies == {body, <<"title:Test Post">>}
RequestHeaders == {headers, <<"Authorization:Bearer token">>}

\* response.headers.get('Cache-Control' / 'ETag' / 'Last-Modified') of the
\* responses the endpoint may send; a value is a sequence of directives
Hdr(cc, et, lm) == [cacheControl |-> cc, etag |-> et, lastModified |-> lm]
ResponseHeaders ==
    {Hdr(NullHeader, NullHeader, NullHeader),
     Hdr(<<"max-age=300">>, <<"abc123">>, <<"Wed, 21 Oct 2015">>),
     Hdr(<<"no-cache">>, NullHeader, NullHeader),
     Hdr(<<"no-store">>, NullHeader, NullHeader),
     Hdr(<<"no-cache", "no-store">>, NullHeader, NullHeader),
     Hdr(NullHeader, <<"abc123">>, NullHeader),
     Hdr(NullHeader, NullHeader, <<"Wed, 21 Oct 2015">>)}

VARIABLES
    method, cache, cacheTime, retryCount, retryDelay,   \* options of the hook
    data, loading, error, status,               \* useState cells
    abortControllerRef, aborted,                \* ref and signalled controllers
    cacheRef,                                   \* the Map in cacheRef.current
    now,                                        \* Date.now()
    nCalls, calls,                              \* execute() invocations
    ret,                                        \* last value returned / thrown
    lastStored,                                 \* last write of setCachedData
    clearedSince,       \* clearCache() was called after the last execute()
    hook,               \* the component owning the hook: renders and effects
    overrides,          \* the arguments the owner calls execute() with
    turn, parked        \* whose turn it is (odd: instance 1 is in the cells above,
                        \* even: instance 2), and the instance that is set aside

vars == <<method, cache, cacheTime, retryCount, retryDelay, data, loading,
          error, status, abortControllerRef, aborted, cacheRef, now, nCalls,
          calls, ret, lastStored, clearedSince, hook, overrides, turn,
          parked>>

options == <<method, cache, cacheTime, retryCount, retryDelay>>
scope == <<hook, overrides, turn, parked>>
requestState == <<data, loading, error, status>>

CallIds == 1..MaxCalls

\* ---- pure helpers -------------------------------------------------------
\* JavaScript truthiness of a header value returned by headers.get()
Truthy(h) == h # NullHeader /\ Len(h) > 0

\* String.prototype.includes on a header value (a sequence of directives)
Includes(h, directive) == \E i \in 1..Len(h) : h[i] = directive

\* response.ok
Ok(st) == st >= 200 /\ st < 300

\* JSON.stringify of a body / headers object
Stringify(v) == IF v = NullObject THEN <<"null">> ELSE <<"{">> \o v \o <<"}">>

\* the template string of getCacheKey, built from the hook's own options
getCacheKey == <<method, endpoint, Stringify(body), Stringify(headers)>>

\* the if/else-if chain that determines cacheStatus
CacheStatusOf(cacheControl, etag, lastModified) ==
    IF Truthy(cacheControl) /\ Includes(cacheControl, "no-cache") THEN "no-cache"
    ELSE IF Truthy(cacheControl) /\ Includes(cacheControl, "no-store") THEN "no-store"
    ELSE IF Truthy(etag) \/ Truthy(lastModified) THEN "validated"
    ELSE "fresh"

\* variants of IsFresh: a shorter lifetime, and an inclusive boundary
IsFreshNarrow(entry) == now - entry.timestamp < cacheTime - 1
IsFreshInclusive(entry) == now - entry.timestamp <= cacheTime

\* getCachedData: is there an entry that is still within cacheTime
IsFresh(entry) == now - entry.timestamp < cacheTime

CachedHit ==
    /\ cache
    /\ getCacheKey \in DOMAIN cacheRef
    /\ IsFresh(cacheRef[getCacheKey])

\* variant of getCachedData: the hit carries no payload
getCachedDataEmpty ==
    [data |-> Null,
     status |-> "cached",
     timestamp |-> cacheRef[getCacheKey].timestamp,
     age |-> now - cacheRef[getCacheKey].timestamp]

\* getCachedData: the value it returns on a hit
getCachedData ==
    [data |-> cacheRef[getCacheKey].data,
     status |-> "cached",
     timestamp |-> cacheRef[getCacheKey].timestamp,
     age |-> now - cacheRef[getCacheKey].timestamp]

\* getCachedData: the Map after the call (an expired entry is deleted)
CacheAfterGet ==
    IF cache /\ getCacheKey \in DOMAIN cacheRef /\ ~IsFresh(cacheRef[getCacheKey])
    THEN [k \in DOMAIN cacheRef \ {getCacheKey} |-> cacheRef[k]]
    ELSE cacheRef

\* variant of setCachedData: a response marked no-store or no-cache is not kept
setCachedDataUnlessForbidden(d, cacheStatus) ==
    IF ~cache \/ cacheStatus \in {"no-store", "no-cache"} THEN cacheRef
    ELSE [k \in DOMAIN cacheRef \cup {getCacheKey} |->
            IF k = getCacheKey
            THEN [data |-> d, timestamp |-> now, status |-> cacheStatus]
            ELSE cacheRef[k]]

\* setCachedData: the Map after the call
setCachedData(d, cacheStatus) ==
    IF ~cache THEN cacheRef
    ELSE [k \in DOMAIN cacheRef \cup {getCacheKey} |->
            IF k = getCacheKey
            THEN [data |-> d, timestamp |-> now, status |-> cacheStatus]
            ELSE cacheRef[k]]

\* ---- records ------------------------------------------------------------
NoPre == [data |-> Null, error |-> Null, status |-> NullStatus]

IdleCall ==
    [pc |-> "idle", retries |-> 0, attempts |-> 0, sig |-> 0, wakeAt |-> 0,
     response |-> NullStatus, pre |-> NoPre, nSuccess |-> 0, nError |-> 0,
     requestBody |-> body, requestHeaders |-> headers]

NoRet ==
    [call |-> 0, kind |-> "none", data |-> Null, status |-> NullStatus,
     fromCache |-> FALSE, cacheStatus |-> Null, cacheAge |-> 0,
     aborted |-> FALSE, cacheControl |-> NullHeader, etag |-> NullHeader,
     lastModified |-> NullHeader, error |-> Null, retries |-> 0,
     attempts |-> 0, requestBody |-> body, requestHeaders |-> headers]

NoStored ==
    [data |-> Null, timestamp |-> -1, cleared |-> FALSE,
     requestBody |-> body, requestHeaders |-> headers]

InFlight(c) == calls[c].pc \in {"fetching", "reading", "backoff"}

\* ---- the request handed to fetch ----------------------------------------
\* the skipCacheHeaders option, left at its default
skipCacheHeaders == FALSE

\* JavaScript truthiness of a body: null is falsy, every object is truthy
TruthyBody(b) == b # NullObject

\* the config object execute builds at the head of every loop iteration,
\* for the attempt of call c that is pending
Config(c) ==
    [method |-> method,
     headers |-> <<"Content-Type:application/json">>
                   \o calls[c].requestHeaders
                   \o (IF method = "GET" /\ ~skipCacheHeaders
                       THEN <<"Cache-Control:max-age=300", "Pragma:cache">>
                       ELSE << >>),
     body |-> IF TruthyBody(calls[c].requestBody) /\ method # "GET"
              THEN Stringify(calls[c].requestBody)
              ELSE NullObject]

\* ---- initial state ------------------------------------------------------
\* the cells of a hook instance after the first render, before any effect
Fresh ==
    /\ data = Null
    /\ loading = FALSE
    /\ error = Null
    /\ status = NullStatus
    /\ abortControllerRef = 0
    /\ aborted = {}
    /\ cacheRef = << >>
    /\ nCalls = 0
    /\ calls = [c \in CallIds |-> IdleCall]
    /\ ret = NoRet
    /\ lastStored = NoStored
    /\ clearedSince = FALSE

\* the same cells, as a record: the instance that is not in the cells
FreshInstance ==
    [data |-> Null, loading |-> FALSE, error |-> Null, status |-> NullStatus,
     abortControllerRef |-> 0, aborted |-> {}, cacheRef |-> << >>,
     nCalls |-> 0, calls |-> [c \in CallIds |-> IdleCall], ret |-> NoRet,
     lastStored |-> NoStored, clearedSince |-> FALSE]

\* a component whose effects have run, with immediate: false and options
\* that keep their identity from one render to the next
MountedHook ==
    [phase |-> "mounted", immediate |-> FALSE, stable |-> TRUE,
     rendered |-> <<Null, FALSE, Null, NullStatus>>, autoRuns |-> 0]

\* the options the hook is constructed with; an option the code never reads
\* (cacheTime without cache, retryDelay without retries) is left at one value
Options ==
    /\ cache \in BOOLEAN
    /\ cacheTime \in (IF cache THEN CacheTimes ELSE {0})
    /\ retryCount \in 0..MaxRetry
    /\ retryDelay \in (IF retryCount > 0 THEN RetryDelays ELSE {0})

Init ==
    /\ method = "GET"
    /\ Options
    /\ now = 0
    /\ Fresh
    /\ hook = MountedHook
    /\ overrides = {<<body, headers>>}
    /\ turn = 1
    /\ parked = FreshInstance

\* ---- execute(): from the call to the first await ------------------------
\* variant of NewController: the controller in the ref is kept when there is one
ReuseController == IF abortControllerRef # 0 THEN abortControllerRef ELSE nCalls + 1

\* new AbortController(): named after the call that creates it
NewController == nCalls + 1

\* execute, from its first statement to the first await
ExecuteCall(requestBody, requestHeaders) ==
    /\ nCalls < MaxCalls
    /\ LET c == nCalls + 1 IN
       /\ nCalls' = c
       /\ IF CachedHit
          THEN /\ data' = getCachedData.data
               /\ status' = 200
               /\ ret' = [NoRet EXCEPT !.call = c, !.kind = "hit",
                             !.requestBody = requestBody,
                             !.requestHeaders = requestHeaders,
                             !.data = getCachedData.data, !.status = 200,
                             !.fromCache = TRUE,
                             !.cacheStatus = getCachedData.status,
                             !.cacheAge = getCachedData.age]
               /\ calls' = [calls EXCEPT ![c] =
                              [IdleCall EXCEPT !.pc = "hit"]]
               /\ UNCHANGED <<loading, error, abortControllerRef, cacheRef>>
          ELSE /\ cacheRef' = CacheAfterGet
               /\ loading' = TRUE
               /\ error' = Null
               /\ abortControllerRef' = NewController
               /\ calls' = [calls EXCEPT ![c] =
                              [IdleCall EXCEPT !.pc = "fetching",
                                 !.attempts = 1, !.sig = NewController,
                                 !.requestBody = requestBody,
                                 !.requestHeaders = requestHeaders,
                                 !.pre = [data |-> data, error |-> error,
                                          status |-> status]]]
               /\ UNCHANGED <<data, status, ret>>
    /\ clearedSince' = FALSE
    /\ UNCHANGED <<options, now, lastStored>>

\* execute(requestBody = body, requestHeaders = headers), called by the owner
execute(requestBody, requestHeaders) ==
    /\ hook.phase = "mounted"
    /\ <<requestBody, requestHeaders>> \in overrides
    /\ ExecuteCall(requestBody, requestHeaders)
    /\ UNCHANGED <<aborted, scope>>

\* ---- the catch block ----------------------------------------------------
\* variant of Exhausted: gives up one attempt early
ExhaustedEarly(c) == calls[c].retries + 1 >= retryCount

\* retries++ ; if (retries > retryCount)
Exhausted(c) == calls[c].retries + 1 > retryCount

\* variant of CatchCall: the same wait before every retry
CatchCallFixedDelay(c) ==
    IF Exhausted(c)
    THEN [IdleCall EXCEPT !.pc = "failed", !.nError = 1]
    ELSE [calls[c] EXCEPT !.pc = "backoff", !.retries = @ + 1, !.sig = 0,
                          !.response = NullStatus,
                          !.wakeAt = now + retryDelay]

\* variant of CatchCall: after the last failure the loop is left without an
\* outcome
CatchCallNoOutcome(c) ==
    IF Exhausted(c)
    THEN IdleCall
    ELSE [calls[c] EXCEPT !.pc = "backoff", !.retries = @ + 1, !.sig = 0,
                          !.response = NullStatus,
                          !.wakeAt = now + retryDelay * (calls[c].retries + 1)]

\* variant of CatchCall: onError is told about every failed attempt
CatchCallNotifyEach(c) ==
    IF Exhausted(c)
    THEN [IdleCall EXCEPT !.pc = "failed", !.nError = calls[c].nError + 1]
    ELSE [calls[c] EXCEPT !.pc = "backoff", !.retries = @ + 1, !.sig = 0,
                          !.response = NullStatus, !.nError = @ + 1,
                          !.wakeAt = now + retryDelay * (calls[c].retries + 1)]

\* the call record after the catch block ran for a non-abort error
CatchCall(c) ==
    IF Exhausted(c)
    THEN [IdleCall EXCEPT !.pc = "failed", !.nError = 1]
    ELSE [calls[c] EXCEPT !.pc = "backoff", !.retries = @ + 1, !.sig = 0,
                          !.response = NullStatus,
                          !.wakeAt = now + retryDelay * (calls[c].retries + 1)]

Catch(c, message) ==
    /\ calls' = [calls EXCEPT ![c] = CatchCall(c)]
    /\ IF Exhausted(c)
       THEN /\ error' = message
            /\ ret' = [NoRet EXCEPT !.call = c, !.kind = "throw",
                          !.error = message,
                          !.retries = calls[c].retries + 1,
                          !.attempts = calls[c].attempts]
       ELSE UNCHANGED <<error, ret>>

\* variant of FetchResolves: a response that is not ok also clears the
\* loaded payload
FetchResolvesClearsData(c, st) ==
    /\ calls[c].pc = "fetching"
    /\ calls[c].sig \notin aborted
    /\ status' = st
    /\ IF Ok(st)
       THEN /\ calls' = [calls EXCEPT ![c].pc = "reading",
                                      ![c].response = st]
            /\ UNCHANGED <<error, ret, data>>
       ELSE /\ Catch(c, "HTTP error! status: 500")
            /\ data' = Null
    /\ UNCHANGED <<options, scope, clearedSince,
                   loading, abortControllerRef, aborted,
                   cacheRef, now, nCalls, lastStored>>

\* ---- await fetch(endpoint, config) --------------------------------------
\* the response head arrives: setStatus, then the ok check
FetchResolves(c, st) ==
    /\ calls[c].pc = "fetching"
    /\ calls[c].sig \notin aborted
    /\ status' = st
    /\ IF Ok(st)
       THEN /\ calls' = [calls EXCEPT ![c].pc = "reading",
                                      ![c].response = st]
            /\ UNCHANGED <<error, ret>>
       ELSE Catch(c, "HTTP error! status: 500")
    /\ UNCHANGED <<options, scope, clearedSince,
                   data, loading, abortControllerRef, aborted,
                   cacheRef, now, nCalls, lastStored>>

\* fetch rejects with a transport failure
FetchRejects(c) ==
    /\ calls[c].pc = "fetching"
    /\ calls[c].sig \notin aborted
    /\ Catch(c, "Network error")
    /\ UNCHANGED <<options, scope, clearedSince,
                   data, loading, status, abortControllerRef,
                   aborted, cacheRef, now, nCalls, lastStored>>

\* variant of FetchAborted: an AbortError is handled like any other error
FetchAbortedRetried(c) ==
    /\ calls[c].pc \in {"fetching", "reading"}
    /\ calls[c].sig \in aborted
    /\ Catch(c, "The operation was aborted")
    /\ UNCHANGED <<options, scope, clearedSince,
                   data, loading, status, abortControllerRef,
                   aborted, cacheRef, now, nCalls, lastStored>>

\* fetch or response.json() rejects with an AbortError
FetchAborted(c) ==
    /\ calls[c].pc \in {"fetching", "reading"}
    /\ calls[c].sig \in aborted
    /\ calls' = [calls EXCEPT ![c] = [IdleCall EXCEPT !.pc = "aborted"]]
    /\ ret' = [NoRet EXCEPT !.call = c, !.kind = "aborted", !.aborted = TRUE,
                  !.retries = calls[c].retries,
                  !.attempts = calls[c].attempts]
    /\ UNCHANGED <<options, scope, clearedSince,
                   requestState, abortControllerRef, aborted,
                   cacheRef, now, nCalls, lastStored>>

\* variant of JsonResolves: onSuccess is invoked only when the response was
\* stored
JsonResolvesNotifiesStored(c, responseData, h) ==
    /\ calls[c].pc = "reading"
    /\ calls[c].sig \notin aborted
    /\ LET cacheStatus == CacheStatusOf(h.cacheControl, h.etag, h.lastModified) IN
       /\ data' = responseData
       /\ cacheRef' = setCachedData(responseData, cacheStatus)
       /\ lastStored' = IF cache
                        THEN [data |-> responseData, timestamp |-> now,
                              cleared |-> FALSE,
                              requestBody |-> calls[c].requestBody,
                              requestHeaders |-> calls[c].requestHeaders]
                        ELSE lastStored
       /\ calls' = [calls EXCEPT ![c] =
                      [IdleCall EXCEPT !.pc = "success",
                                       !.nSuccess = IF cache THEN 1 ELSE 0]]
       /\ ret' = [NoRet EXCEPT !.call = c, !.kind = "network",
                     !.requestBody = calls[c].requestBody,
                     !.requestHeaders = calls[c].requestHeaders,
                     !.data = responseData,
                     !.status = calls[c].response,
                     !.cacheStatus = cacheStatus,
                     !.attempts = calls[c].attempts,
                     !.retries = calls[c].retries,
                     !.cacheControl = h.cacheControl, !.etag = h.etag,
                     !.lastModified = h.lastModified]
    /\ UNCHANGED <<options, scope, clearedSince,
                   loading, error, status, abortControllerRef,
                   aborted, now, nCalls>>

\* ---- await response.json() ----------------------------------------------
JsonResolves(c, responseData, h) ==
    /\ calls[c].pc = "reading"
    /\ calls[c].sig \notin aborted
    /\ LET cacheStatus == CacheStatusOf(h.cacheControl, h.etag, h.lastModified) IN
       /\ data' = responseData
       /\ cacheRef' = setCachedData(responseData, cacheStatus)
       /\ lastStored' = IF cache
                        THEN [data |-> responseData, timestamp |-> now,
                              cleared |-> FALSE,
                              requestBody |-> calls[c].requestBody,
                              requestHeaders |-> calls[c].requestHeaders]
                        ELSE lastStored
       /\ calls' = [calls EXCEPT ![c] =
                      [IdleCall EXCEPT !.pc = "success", !.nSuccess = 1]]
       /\ ret' = [NoRet EXCEPT !.call = c, !.kind = "network",
                     !.requestBody = calls[c].requestBody,
                     !.requestHeaders = calls[c].requestHeaders,
                     !.data = responseData,
                     !.status = calls[c].response,
                     !.cacheStatus = cacheStatus,
                     !.attempts = calls[c].attempts,
                     !.retries = calls[c].retries,
                     !.cacheControl = h.cacheControl, !.etag = h.etag,
                     !.lastModified = h.lastModified]
    /\ UNCHANGED <<options, scope, clearedSince,
                   loading, error, status, abortControllerRef,
                   aborted, now, nCalls>>

\* response.json() rejects: the body is not valid JSON
JsonRejects(c) ==
    /\ calls[c].pc = "reading"
    /\ calls[c].sig \notin aborted
    /\ Catch(c, "Unexpected token")
    /\ UNCHANGED <<options, scope, clearedSince,
                   data, loading, status, abortControllerRef,
                   aborted, cacheRef, now, nCalls, lastStored>>

\* ---- the backoff timer fires: loop head, new config, fetch again --------
BackoffDone(c) ==
    /\ calls[c].pc = "backoff"
    /\ now >= calls[c].wakeAt
    /\ calls' = [calls EXCEPT ![c].pc = "fetching",
                              ![c].attempts = @ + 1,
                              ![c].sig = abortControllerRef,
                              ![c].wakeAt = 0]
    /\ UNCHANGED <<options, scope, clearedSince,
                   requestState, abortControllerRef, aborted,
                   cacheRef, now, nCalls, ret, lastStored>>

\* ---- abort() and clearCache() -------------------------------------------
\* if (abortControllerRef.current) abortControllerRef.current.abort()
Signalled ==
    IF abortControllerRef # 0
    THEN aborted \cup {abortControllerRef}
    ELSE aborted

abort ==
    /\ hook.phase = "mounted"
    /\ aborted' = Signalled
    /\ UNCHANGED <<options, scope, clearedSince,
                   requestState, abortControllerRef, cacheRef, now,
                   nCalls, calls, ret, lastStored>>

\* variant of clearCache: the payload is dropped together with the entries
clearCacheAndData ==
    /\ hook.phase = "mounted"
    /\ cacheRef' = << >>
    /\ clearedSince' = TRUE
    /\ data' = Null
    /\ lastStored' = IF lastStored.timestamp >= 0
                     THEN [lastStored EXCEPT !.cleared = TRUE]
                     ELSE lastStored
    /\ UNCHANGED <<options, scope, loading, error, status,
                   abortControllerRef, aborted, now, nCalls, calls, ret>>

\* variant of clearCache: the Map keeps its entries
clearCacheKeeps ==
    /\ hook.phase = "mounted"
    /\ cacheRef' = cacheRef
    /\ clearedSince' = TRUE
    /\ lastStored' = IF lastStored.timestamp >= 0
                     THEN [lastStored EXCEPT !.cleared = TRUE]
                     ELSE lastStored
    /\ UNCHANGED <<options, scope, requestState, abortControllerRef, aborted,
                   now, nCalls, calls, ret>>

clearCache ==
    /\ hook.phase = "mounted"
    /\ cacheRef' = << >>
    /\ clearedSince' = TRUE
    /\ lastStored' = IF lastStored.timestamp >= 0
                     THEN [lastStored EXCEPT !.cleared = TRUE]
                     ELSE lastStored
    /\ UNCHANGED <<options, scope, requestState, abortControllerRef, aborted,
                   now, nCalls, calls, ret>>

\* ---- the clock advances -------------------------------------------------
Tick ==
    /\ now < MaxTime
    /\ now' = now + 1
    /\ UNCHANGED <<options, scope, clearedSince,
                   requestState, abortControllerRef, aborted,
                   cacheRef, nCalls, calls, ret, lastStored>>

Next ==
    \/ \E rb \in RequestBodies, rh \in RequestHeaders : execute(rb, rh)
    \/ \E c \in CallIds, st \in Statuses : FetchResolves(c, st)
    \/ \E c \in CallIds : FetchRejects(c)
    \/ \E c \in CallIds : FetchAborted(c)
    \/ \E c \in CallIds, d \in Bodies, h \in ResponseHeaders :
          JsonResolves(c, d, h)
    \/ \E c \in CallIds : JsonRejects(c)
    \/ \E c \in CallIds : BackoffDone(c)
    \/ abort
    \/ clearCache
    \/ Tick

Spec == Init /\ [][Next]_vars

\* ---- a caller that passes per-call overrides ----------------------------
\* useApi(endpoint, { method: 'POST', cache: true, cacheTime, retryCount: 1,
\* retryDelay }) whose owner calls execute() and execute(requestBody,
\* requestHeaders)
InitOverride ==
    /\ method = "POST"
    /\ cache = TRUE
    /\ cacheTime = 2
    /\ retryCount = 1
    /\ retryDelay = 1
    /\ now = 0
    /\ Fresh
    /\ hook = MountedHook
    /\ overrides = {<<body, headers>>,
                     <<<<"title:Test Post">>, <<"Authorization:Bearer token">>>>}
    /\ turn = 1
    /\ parked = FreshInstance

SpecOverride == InitOverride /\ [][Next]_vars

\* ---- the component that owns the hook: mount, re-render, unmount --------
\* the cells an effect leaves alone when it does not call execute()
cells ==
    <<data, loading, error, status, abortControllerRef, cacheRef, nCalls,
      calls, ret, lastStored, clearedSince>>

\* a useState cell changed and the component has not rendered since
RenderPending == hook.phase = "mounted" /\ requestState # hook.rendered

\* the first effect after a re-render whose dependencies [immediate, execute]
\* changed: the cleanup of the previous run, then the effect body
RunEffect ==
    /\ aborted' = Signalled
    /\ IF hook.immediate
       THEN /\ ExecuteCall(body, headers)
            /\ hook' = [hook EXCEPT !.rendered = requestState,
                                    !.autoRuns = @ + 1]
       ELSE /\ hook' = [hook EXCEPT !.rendered = requestState]
            /\ UNCHANGED <<options, now, cells>>

\* the effects run for the first time, after the first render
Mount ==
    /\ hook.phase = "rendered"
    /\ IF hook.immediate
       THEN /\ ExecuteCall(body, headers)
            /\ hook' = [hook EXCEPT !.phase = "mounted", !.autoRuns = @ + 1]
       ELSE /\ hook' = [hook EXCEPT !.phase = "mounted"]
            /\ UNCHANGED <<options, now, cells>>
    /\ UNCHANGED <<aborted, overrides, turn, parked>>

\* a useState cell changed: the component renders again.  Options that do
\* not keep their identity (headers = {} is a new object in every render)
\* give getCacheKey, getCachedData, setCachedData and execute a new identity,
\* so the effect that depends on execute runs again.
Render ==
    /\ RenderPending
    /\ IF hook.stable
       THEN /\ hook' = [hook EXCEPT !.rendered = requestState]
            /\ UNCHANGED <<options, now, cells, aborted>>
       ELSE RunEffect
    /\ UNCHANGED <<overrides, turn, parked>>

\* the component unmounts: the cleanups of both effects run
Unmount ==
    /\ hook.phase = "mounted"
    /\ ~RenderPending
    /\ hook' = [hook EXCEPT !.phase = "unmounted"]
    /\ aborted' = Signalled
    /\ UNCHANGED <<options, now, cells, overrides, turn, parked>>

\* a component rendered for the first time, its effects not yet run
RenderedHook(immediate, stable) ==
    [phase |-> "rendered", immediate |-> immediate, stable |-> stable,
     rendered |-> <<Null, FALSE, Null, NullStatus>>, autoRuns |-> 0]

InitEffects ==
    /\ method = "GET"
    /\ cache = TRUE
    /\ cacheTime = 2
    /\ retryCount = 1
    /\ retryDelay = 1
    /\ now = 0
    /\ Fresh
    /\ \E immediate \in BOOLEAN, stable \in BOOLEAN :
          hook = RenderedHook(immediate, stable)
    /\ overrides = {<<body, headers>>}
    /\ turn = 1
    /\ parked = FreshInstance

\* React renders before the next response, timer or call of the owner
NextEffects ==
    \/ ~RenderPending /\ \E rb \in RequestBodies, rh \in RequestHeaders :
                            execute(rb, rh)
    \/ ~RenderPending /\ \E c \in CallIds, st \in Statuses : FetchResolves(c, st)
    \/ ~RenderPending /\ \E c \in CallIds : FetchRejects(c)
    \/ ~RenderPending /\ \E c \in CallIds : FetchAborted(c)
    \/ ~RenderPending /\ \E c \in CallIds, d \in Bodies, h \in ResponseHeaders :
                            JsonResolves(c, d, h)
    \/ ~RenderPending /\ \E c \in CallIds : JsonRejects(c)
    \/ ~RenderPending /\ \E c \in CallIds : BackoffDone(c)
    \/ ~RenderPending /\ abort
    \/ ~RenderPending /\ clearCache
    \/ ~RenderPending /\ Tick
    \/ Mount
    \/ Render
    \/ Unmount

SpecEffects == InitEffects /\ [][NextEffects]_vars

\* ---- a second, independent instance of the hook -------------------------
MaxTurns == 2

\* the instance whose cells are in the variables
Active == IF turn % 2 = 1 THEN 1 ELSE 2

\* the cells of the instance in the variables, as a record
ActiveInstance ==
    [data |-> data, loading |-> loading, error |-> error, status |-> status,
     abortControllerRef |-> abortControllerRef, aborted |-> aborted,
     cacheRef |-> cacheRef, nCalls |-> nCalls, calls |-> calls, ret |-> ret,
     lastStored |-> lastStored, clearedSince |-> clearedSince]

\* variant of Load: one Map serves every instance
LoadSharedMap(inst) ==
    /\ data' = inst.data
    /\ loading' = inst.loading
    /\ error' = inst.error
    /\ status' = inst.status
    /\ abortControllerRef' = inst.abortControllerRef
    /\ aborted' = inst.aborted
    /\ cacheRef' = cacheRef
    /\ nCalls' = inst.nCalls
    /\ calls' = inst.calls
    /\ ret' = inst.ret
    /\ lastStored' = inst.lastStored
    /\ clearedSince' = inst.clearedSince

\* every call of useApi has its own useState cells and its own refs, the
\* Map of cacheRef among them
Load(inst) ==
    /\ data' = inst.data
    /\ loading' = inst.loading
    /\ error' = inst.error
    /\ status' = inst.status
    /\ abortControllerRef' = inst.abortControllerRef
    /\ aborted' = inst.aborted
    /\ cacheRef' = inst.cacheRef
    /\ nCalls' = inst.nCalls
    /\ calls' = inst.calls
    /\ ret' = inst.ret
    /\ lastStored' = inst.lastStored
    /\ clearedSince' = inst.clearedSince

\* the other instance takes its turn, at a moment when this one has no call
\* in flight
Switch ==
    /\ turn < MaxTurns
    /\ \A c \in CallIds : ~InFlight(c)
    /\ turn' = turn + 1
    /\ parked' = ActiveInstance
    /\ Load(parked)
    /\ UNCHANGED <<options, now, hook, overrides>>

\* two components calling useApi('/api/posts', { cache: true, cacheTime,
\* retryCount: 1, retryDelay, immediate: false })
InitTwo ==
    /\ method = "GET"
    /\ cache = TRUE
    /\ cacheTime = 2
    /\ retryCount = 1
    /\ retryDelay = 1
    /\ now = 0
    /\ Fresh
    /\ hook = MountedHook
    /\ overrides = {<<body, headers>>}
    /\ turn = 1
    /\ parked = FreshInstance

\* the two instances make MaxCalls calls of execute() between them
NextTwo ==
    \/ nCalls + parked.nCalls < MaxCalls /\
          \E rb \in RequestBodies, rh \in RequestHeaders : execute(rb, rh)
    \/ \E c \in CallIds, st \in Statuses : FetchResolves(c, st)
    \/ \E c \in CallIds : FetchRejects(c)
    \/ \E c \in CallIds : FetchAborted(c)
    \/ \E c \in CallIds, d \in Bodies, h \in ResponseHeaders :
          JsonResolves(c, d, h)
    \/ \E c \in CallIds : JsonRejects(c)
    \/ \E c \in CallIds : BackoffDone(c)
    \/ abort
    \/ clearCache
    \/ Tick
    \/ Switch

SpecTwo == InitTwo /\ [][NextTwo]_vars

\* ---- a hook that retries more than once ---------------------------------
\* useApi(endpoint, { retryCount, retryDelay }) with one retry more than
\* the hooks of Spec make
InitRetry ==
    /\ method = "GET"
    /\ cache = FALSE
    /\ cacheTime = 0
    /\ retryCount = MaxRetry + 1
    /\ retryDelay = 1
    /\ now = 0
    /\ Fresh
    /\ hook = MountedHook
    /\ overrides = {<<body, headers>>}
    /\ turn = 1
    /\ parked = FreshInstance

SpecRetry == InitRetry /\ [][Next]_vars

\* ---- fairness: responses arrive and timers fire --------------------------
\* the pending fetch or response.json() of the call settles
NetworkCompletes(c) ==
    \/ \E st \in Statuses : FetchResolves(c, st)
    \/ FetchRejects(c)
    \/ FetchAborted(c)
    \/ \E d \in Bodies, h \in ResponseHeaders : JsonResolves(c, d, h)
    \/ JsonRejects(c)

InitLive ==
    /\ method = "GET"
    /\ cache = FALSE
    /\ cacheTime = 0
    /\ retryCount = 1
    /\ retryDelay \in RetryDelays
    /\ now = 0
    /\ Fresh
    /\ hook = MountedHook
    /\ overrides = {<<body, headers>>}
    /\ turn = 1
    /\ parked = FreshInstance

\* every promise of fetch and response.json() settles, every setTimeout
\* fires once its delay has passed, and time passes
Fairness ==
    /\ \A c \in CallIds : WF_vars(NetworkCompletes(c))
    /\ \A c \in CallIds : WF_vars(BackoffDone(c))
    /\ WF_vars(Tick)

SpecLive == InitLive /\ [][Next]_vars /\ Fairness

\* ---- steps, as seen from outside ---------------------------------------
\* a step that is an invocation of execute()
ExecuteStep == nCalls' = nCalls + 1

\* a step that is an invocation of clearCache()
ClearCacheStep ==
    /\ cacheRef' = << >>
    /\ UNCHANGED <<requestState, abortControllerRef, aborted, now, nCalls,
                   calls, ret>>

HasEntry == getCacheKey \in DOMAIN cacheRef

\* ---- C1 ----------------------------------------------------------------
\* C1 as stated: with cacheEnabled, once an execute() has completed
\* successfully over the network at time t, every later execute() issued
\* strictly before t + cacheTime returns fromCache = true with the stored
\* payload and issues no network call.
C1_Original ==
    [][(/\ ExecuteStep
        /\ cache
        /\ lastStored.timestamp >= 0
        /\ now < lastStored.timestamp + cacheTime)
       => (/\ ret'.call = nCalls'
           /\ ret'.fromCache
           /\ ret'.data = lastStored.data
           /\ calls'[nCalls'].pc = "hit"
           /\ calls'[nCalls'].attempts = 0
           /\ \A o \in CallIds \ {nCalls'} : calls'[o] = calls[o])]_vars

\* C1 (amended): the same, provided clearCache() has not been called since
\* that successful completion.
C1_CachedWithinTtl ==
    [][(/\ ExecuteStep
        /\ cache
        /\ lastStored.timestamp >= 0
        /\ ~lastStored.cleared
        /\ now < lastStored.timestamp + cacheTime)
       => (/\ ret'.call = nCalls'
           /\ ret'.fromCache
           /\ ret'.data = lastStored.data
           /\ calls'[nCalls'].pc = "hit"
           /\ calls'[nCalls'].attempts = 0
           /\ \A o \in CallIds \ {nCalls'} : calls'[o] = calls[o])]_vars

\* an execute() answered from the cache some time after the entry was stored
C1_Witness ==
    /\ cache
    /\ ret.kind = "hit"
    /\ ret.call = nCalls
    /\ ret.fromCache
    /\ ret.cacheAge > 0
    /\ ~lastStored.cleared
    /\ ret.data = lastStored.data

\* ---- C2 ----------------------------------------------------------------
ExpiredReadMisses ==
    (/\ ExecuteStep
     /\ cache
     /\ HasEntry
     /\ now - cacheRef[getCacheKey].timestamp >= cacheTime)
    => (/\ getCacheKey \notin DOMAIN cacheRef'
        /\ calls'[nCalls'].pc = "fetching"
        /\ calls'[nCalls'].attempts = 1
        /\ ret' = ret)

RemovedOnlyByReadOrClear ==
    (HasEntry /\ getCacheKey \notin DOMAIN cacheRef')
    => (\/ ClearCacheStep
        \/ (ExecuteStep /\ now - cacheRef[getCacheKey].timestamp >= cacheTime))

\* C2: an execute() issued when now - storedAt >= cacheTime for the entry
\* of its key (boundary included) is a miss: the read evicts the entry and
\* a network call is issued; a network result has fromCache = false and one
\* attempt more than it had failures.  An entry disappears only by such a
\* read or by clearCache(), never by the clock advancing.
C2_ExpiredIsMiss ==
    /\ [][ExpiredReadMisses /\ RemovedOnlyByReadOrClear]_vars
    /\ [](ret.kind = "network"
            => ~ret.fromCache /\ ret.attempts = ret.retries + 1)

\* an execute() issued exactly at storedAt + cacheTime went to the network
C2_Witness ==
    /\ cache
    /\ cacheTime > 0
    /\ lastStored.timestamp >= 0
    /\ ~lastStored.cleared
    /\ now - lastStored.timestamp = cacheTime
    /\ ~HasEntry
    /\ nCalls > 0
    /\ calls[nCalls].pc = "fetching"
    /\ calls[nCalls].attempts = 1

\* ---- C3 ----------------------------------------------------------------
\* C3: an execute() that ends in the terminal error state has made exactly
\* retryCount + 1 network attempts, and no call makes more than that.
C3_AttemptsBeforeError ==
    /\ ret.kind = "throw" => ret.attempts = retryCount + 1
    /\ \A c \in CallIds :
          InFlight(c) =>
            /\ calls[c].attempts <= retryCount + 1
            /\ calls[c].pc = "backoff" => calls[c].attempts <= retryCount

\* a call with at least one retry has failed terminally
C3_Witness ==
    /\ retryCount >= 1
    /\ ret.kind = "throw"
    /\ ret.attempts = retryCount + 1
    /\ calls[ret.call].pc = "failed"

\* ---- C4 ----------------------------------------------------------------
\* abort() was invoked after call c started and c has not resolved yet
AbortedInFlight(c) == InFlight(c) /\ \E k \in aborted : k >= c

Resolves(c) ==
    /\ InFlight(c)
    /\ calls'[c].pc \in {"success", "failed", "aborted"}

\* C4 as stated: an in-flight execute() during which abort() was invoked
\* resolves as aborted, with error left null and neither callback invoked.
C4_Original ==
    [][\A c \in CallIds :
         (AbortedInFlight(c) /\ Resolves(c))
         => (/\ calls'[c].pc = "aborted"
             /\ ret'.aborted
             /\ error' = Null
             /\ calls'[c].nSuccess = 0
             /\ calls'[c].nError = 0)]_vars

\* ---- C5 ----------------------------------------------------------------
\* C5 as stated: once a newer execute() has started, no step of an older
\* call writes payload, statusCode or error.
C5_Original ==
    [][\A c \in CallIds :
         (c < nCalls /\ calls'[c] # calls[c])
         => UNCHANGED <<data, status, error>>]_vars

\* ---- C6 ----------------------------------------------------------------
\* C6 as stated: when no network execute() is outstanding, loading is false.
C6_Original ==
    (\A c \in CallIds : ~InFlight(c)) => loading = FALSE

\* ---- C7 ----------------------------------------------------------------
\* the first-match policy of the claim
FirstMatchPolicy(cacheControl, etag, lastModified) ==
    IF cacheControl # NullHeader /\ Includes(cacheControl, "no-store")
    THEN "no-store"
    ELSE IF cacheControl # NullHeader /\ Includes(cacheControl, "no-cache")
    THEN "no-cache"
    ELSE IF etag # NullHeader \/ lastModified # NullHeader
    THEN "validated"
    ELSE "fresh"

\* C7 as stated: the classification of a successful response follows the
\* order no-store, no-cache, validated, fresh.
C7_Original ==
    ret.kind = "network"
    => ret.cacheStatus =
         FirstMatchPolicy(ret.cacheControl, ret.etag, ret.lastModified)

\* ---- C8 ----------------------------------------------------------------
\* C8 as stated: an execute() answered from the cache returns the
\* classification stored with the entry.
C8_Original ==
    [][(ExecuteStep /\ ret'.call = nCalls' /\ ret'.fromCache)
       => ret'.cacheStatus = cacheRef[getCacheKey].status]_vars

\* ---- C9 ----------------------------------------------------------------
\* C9 as stated: when a call resolves as aborted, payload, error and
\* statusCode are what they were just before the call started.
C9_Original ==
    [][\A c \in CallIds :
         (calls[c].pc # "aborted" /\ calls'[c].pc = "aborted")
         => (/\ data' = calls[c].pre.data
             /\ error' = calls[c].pre.error
             /\ status' = calls[c].pre.status)]_vars

\* ---- C10 ---------------------------------------------------------------
\* C10 as stated: when an attempt of the current execute() succeeds,
\* payload is the response body and statusCode the response status, and
\* with cacheEnabled the entry of the key holds that body, the response's
\* classification and the completion time.
C10_Original ==
    [][\A c \in CallIds :
         (c = nCalls /\ calls[c].pc = "reading" /\ calls'[c].pc = "success")
         => (/\ data' = ret'.data
             /\ status' = calls[c].response
             /\ cache =>
                   /\ getCacheKey \in DOMAIN cacheRef'
                   /\ cacheRef'[getCacheKey] =
                        [data |-> ret'.data, timestamp |-> now,
                         status |-> ret'.cacheStatus])]_vars

\* ---- C11 ---------------------------------------------------------------
\* the call fails for good in this step
FailsTerminally(c) == InFlight(c) /\ calls'[c].pc = "failed"

\* the messages the failure that ends the step can carry
FailureMessages(c) ==
    IF calls[c].pc = "reading"
    THEN {"Unexpected token"}
    ELSE {"Network error"} \cup
         (IF status' = 500 THEN {"HTTP error! status: 500"} ELSE {})

\* C11: when the last permitted attempt of an execute() fails, error becomes
\* that failure's message and onError is invoked exactly once, with the error
\* and the number of attempts made (retryCount + 1); onError is never invoked
\* for a failed attempt that is followed by a retry.
C11_LastFailureReported ==
    /\ [][\A c \in CallIds : FailsTerminally(c)
            => (/\ error' \in FailureMessages(c)
                /\ ret'.call = c
                /\ ret'.kind = "throw"
                /\ ret'.error = error'
                /\ ret'.retries = retryCount + 1
                /\ ret'.attempts = retryCount + 1
                /\ calls[c].nError = 0
                /\ calls'[c].nError = 1)]_vars
    /\ [](\A c \in CallIds : InFlight(c) => calls[c].nError = 0)

C11_Witness ==
    /\ retryCount >= 1
    /\ ret.kind = "throw"
    /\ ret.retries = retryCount + 1
    /\ error = ret.error
    /\ error = "Unexpected token"
    /\ calls[ret.call].nError = 1

\* ---- C12 ---------------------------------------------------------------
\* an attempt whose signal is aborted comes to its end in this step
CancelledAttemptEnds(c) ==
    /\ calls[c].pc \in {"fetching", "reading"}
    /\ calls[c].sig \in aborted
    /\ calls'[c] # calls[c]

\* C12: a network attempt that ends in a cancellation is never followed by
\* another attempt of the same execute(), whatever retryCount is: the call
\* resolves as aborted at once, and the failed-attempt counter is not
\* incremented.
C12_AbortNotRetried ==
    /\ [][\A c \in CallIds : CancelledAttemptEnds(c)
            => (/\ calls'[c].pc = "aborted"
                /\ ret'.call = c
                /\ ret'.aborted
                /\ ret'.attempts = calls[c].attempts
                /\ ret'.retries = calls[c].retries)]_vars
    /\ [][\A c \in CallIds :
            calls[c].pc = "aborted" => calls'[c] = calls[c]]_vars

C12_Witness ==
    /\ retryCount >= 1
    /\ ret.kind = "aborted"
    /\ ret.aborted
    /\ ret.attempts = 1
    /\ ret.retries < retryCount
    /\ calls[ret.call].pc = "aborted"

\* ---- C13 ---------------------------------------------------------------
\* a step that is a clearCache() coming after an execute()
ClearCacheCalled == ~clearedSince /\ clearedSince'

\* C13: clearCache() can be called in any controller state; it removes every
\* entry of the CacheStore and leaves payload, loading, error, statusCode and
\* the token of any call in flight unchanged.
C13_ClearCacheFrame ==
    /\ [](hook.phase = "mounted" => ENABLED clearCache)
    /\ [][ClearCacheCalled
            => (/\ cacheRef' = << >>
                /\ UNCHANGED <<requestState, abortControllerRef, aborted,
                               calls, ret>>)]_vars

C13_Witness ==
    /\ clearedSince
    /\ lastStored.cleared
    /\ cacheRef = << >>
    /\ InFlight(1)
    /\ calls[2].pc = "success"
    /\ loading
    /\ data = lastStored.data
    /\ data # Null

\* ---- C14 ---------------------------------------------------------------
\* the execute() of this step goes to the network
ExecuteMisses ==
    /\ calls'[nCalls'].pc = "fetching"
    /\ calls'[nCalls'].attempts = 1
    /\ ret' = ret

\* C14 as stated: with cacheEnabled, after clearCache() has been called the
\* next execute() issues a network call and returns fromCache = false.
C14_Original ==
    [][(ExecuteStep /\ cache /\ clearedSince) => ExecuteMisses]_vars

\* C14, amended: with cacheEnabled, the next execute() after a clearCache()
\* issues a network call, even within the TTL of the entry that was removed,
\* provided no network call has completed successfully since the clearCache().
C14_NextAfterClearMisses ==
    [][(/\ ExecuteStep
        /\ cache
        /\ clearedSince
        /\ lastStored.timestamp >= 0 => lastStored.cleared)
       => (ExecuteMisses /\ cacheRef' = << >>)]_vars

C14_Witness ==
    /\ cache
    /\ nCalls = 2
    /\ calls[1].pc = "success"
    /\ calls[2].pc = "fetching"
    /\ calls[2].attempts = 1
    /\ lastStored.cleared
    /\ ~clearedSince
    /\ now < lastStored.timestamp + cacheTime

\* ---- C15 ---------------------------------------------------------------
\* a step in which abort() signals a controller
AbortCalled == aborted' # aborted

NoneInFlight == \A c \in CallIds : ~InFlight(c)

\* C15: abort() called while no execute() is in flight is a no-op:
\* RequestState and CacheStore are unchanged, no callback fires, and a
\* subsequent execute() is not born cancelled.
C15_IdleAbortNoop ==
    /\ [](abortControllerRef = 0 => aborted = {})
    /\ [][(AbortCalled /\ NoneInFlight)
            => UNCHANGED <<requestState, cacheRef, abortControllerRef,
                           calls, ret>>]_vars
    /\ [][(ExecuteStep /\ calls'[nCalls'].pc = "fetching")
            => calls'[nCalls'].sig \notin aborted']_vars

C15_Witness ==
    /\ retryCount = 0
    /\ calls[1].pc = "success"
    /\ 1 \in aborted
    /\ calls[2].pc = "success"
    /\ 2 \notin aborted
    /\ ret.call = 2
    /\ ret.kind = "network"

\* ---- C19 ---------------------------------------------------------------
\* an entry is written in this step
EntryWritten ==
    /\ HasEntry'
    /\ HasEntry => cacheRef'[getCacheKey] # cacheRef[getCacheKey]

\* the call succeeds over the network in this step
Succeeds(c) == calls[c].pc = "reading" /\ calls'[c].pc = "success"

\* C19: a CacheStore entry is written exactly when a network call succeeds
\* and cacheEnabled is true, whatever the classification of the response,
\* and it then serves the execute() calls within the TTL; with cacheEnabled
\* false the CacheStore stays empty and no execute() returns fromCache = true.
C19_StoredOnSuccess ==
    /\ [][EntryWritten => (cache /\ \E c \in CallIds : Succeeds(c))]_vars
    /\ [][\A c \in CallIds : (Succeeds(c) /\ cache)
            => (/\ HasEntry'
                /\ cacheRef'[getCacheKey] =
                     [data |-> ret'.data, timestamp |-> now,
                      status |-> ret'.cacheStatus])]_vars
    /\ [][(/\ ExecuteStep
           /\ cache
           /\ HasEntry
           /\ now - cacheRef[getCacheKey].timestamp < cacheTime)
          => (/\ ret'.call = nCalls'
              /\ ret'.fromCache
              /\ ret'.data = cacheRef[getCacheKey].data)]_vars
    /\ [](~cache => (cacheRef = << >> /\ ~ret.fromCache))

C19_Witness ==
    /\ ret.kind = "hit"
    /\ ret.fromCache
    /\ HasEntry
    /\ cacheRef[getCacheKey].status = "no-store"
    /\ ret.data = cacheRef[getCacheKey].data
    /\ ret.cacheAge > 0

\* ---- C20 ---------------------------------------------------------------
\* C20 as stated: the cache key of an execute() is determined by the method,
\* endpoint, body and headers actually used for that call, per-call overrides
\* included, so an execute() whose body or headers differ from those of the
\* call that populated the cache is never answered from that entry.
C20_Original ==
    [][(ExecuteStep /\ ret'.call = nCalls' /\ ret'.fromCache)
       => (/\ ret'.requestBody = lastStored.requestBody
           /\ ret'.requestHeaders = lastStored.requestHeaders)]_vars

\* ---- C16 ---------------------------------------------------------------
\* C16 as stated: with runImmediately the controller triggers exactly one
\* automatic execute(), at construction, and re-renders with the same
\* endpoint and options trigger no further one; without runImmediately no
\* execute() is triggered automatically.
C16_Original ==
    hook.autoRuns = (IF hook.immediate /\ hook.phase # "rendered" THEN 1 ELSE 0)

\* ---- C17 ---------------------------------------------------------------
\* the component is torn down in this step
TornDown == hook.phase = "mounted" /\ hook'.phase = "unmounted"

\* C17 as stated, for tokens, the CacheStore and the callbacks: at teardown
\* the token of every call in flight is signalled, and after teardown no
\* call writes the CacheStore or invokes onSuccess or onError.
C17_Original ==
    /\ [][TornDown => \A c \in CallIds : InFlight(c) => c \in aborted']_vars
    /\ [][hook.phase = "unmounted"
            => (/\ cacheRef' = cacheRef
                /\ \A c \in CallIds :
                      /\ calls'[c].nSuccess = calls[c].nSuccess
                      /\ calls'[c].nError = calls[c].nError)]_vars

\* ---- C18 ---------------------------------------------------------------
\* the Map of instance i
CacheOf(i) == IF Active = i THEN cacheRef ELSE parked.cacheRef

\* what instance i stored last, and whether it has called clearCache() since
StoredBy(i) == IF Active = i THEN lastStored ELSE parked.lastStored

\* C18: two independent instances never share cache entries: the Map of an
\* instance changes only in steps of that instance, so an execute() on one
\* is answered from the cache only with what that same instance stored, and a
\* clearCache() on one never removes an entry of the other.
C18_CachesApart ==
    /\ [][\A i \in {1, 2} : (Active # i \/ turn' # turn)
            => CacheOf(i)' = CacheOf(i)]_vars
    /\ [][(/\ ExecuteStep
           /\ turn' = turn
           /\ ret'.call = nCalls'
           /\ ret'.fromCache)
          => (/\ lastStored.timestamp >= 0
              /\ ret'.data = lastStored.data)]_vars
    /\ [][(ExecuteStep /\ turn' = turn /\ lastStored.timestamp < 0)
          => ExecuteMisses]_vars

\* instance 1 stored a response; instance 2, with the same method, endpoint,
\* body and headers, then went to the network and stored its own, and
\* cleared its cache without touching the entry of instance 1
C18_Witness ==
    /\ Active = 2
    /\ getCacheKey \in DOMAIN CacheOf(1)
    /\ now - CacheOf(1)[getCacheKey].timestamp < cacheTime
    /\ StoredBy(1).timestamp >= 0
    /\ ~StoredBy(1).cleared
    /\ calls[1].pc = "success"
    /\ lastStored.cleared
    /\ lastStored.data # StoredBy(1).data
    /\ CacheOf(2) = << >>

\* ---- C21 ---------------------------------------------------------------
\* C21 as stated: the request of every attempt has exactly the header
\* Content-Type: application/json plus the headers supplied by the caller,
\* and carries a serialized body exactly when the method is not GET and a
\* body is supplied.
C21_Original ==
    \A c \in CallIds : calls[c].pc = "fetching"
        => (/\ Config(c).headers =
                  <<"Content-Type:application/json">> \o calls[c].requestHeaders
            /\ (Config(c).body # NullObject)
                  <=> (method # "GET" /\ calls[c].requestBody # NullObject))

\* ---- C22 ---------------------------------------------------------------
\* the execute() of this step is answered from the cache
ExecuteHits == ExecuteStep /\ ret'.call = nCalls' /\ ret'.fromCache

\* C22: an execute() that is satisfied from the cache completes within the
\* call, without going through loading: it does not set loading (nor error,
\* nor the token) and on return the payload is the cached payload.
C22_HitIsSynchronous ==
    [][ExecuteHits
        => (/\ calls'[nCalls'].pc = "hit"
            /\ UNCHANGED <<loading, error, abortControllerRef, cacheRef>>
            /\ data' = cacheRef[getCacheKey].data
            /\ ret'.data = data'
            /\ \A c \in CallIds \ {nCalls'} : calls'[c] = calls[c])]_vars

C22_Witness ==
    /\ ret.kind = "hit"
    /\ ret.call = 2
    /\ calls[2].pc = "hit"
    /\ HasEntry
    /\ data = cacheRef[getCacheKey].data
    /\ ret.data = data
    /\ error = Null
    /\ abortControllerRef = 1
    /\ 1 \notin aborted

\* ---- C23 ---------------------------------------------------------------
\* C23 as stated: if abort() is signalled while an execute() is in its
\* backoff wait, the call sees its token before retrying and does not invoke
\* the network call again.
C23_Original ==
    [][\A c \in CallIds : (calls[c].pc = "backoff" /\ c \in aborted)
         => calls'[c].pc \in {"backoff", "aborted"}]_vars

\* ---- C24 ---------------------------------------------------------------
\* a failed attempt of the call is followed by a wait, from this step on
StartsWaiting(c) == InFlight(c) /\ calls[c].pc # "backoff" /\ calls'[c].pc = "backoff"

\* the call leaves its wait in this step
StopsWaiting(c) == calls[c].pc = "backoff" /\ calls'[c].pc # "backoff"

\* C24: the wait between a failed attempt and the next one is linear in the
\* attempt number: after the k-th failed attempt (k = 1..retryCount) the
\* call waits retryDelay * k before it retries, and there is no wait after
\* the final failed attempt.
C24_LinearBackoff ==
    /\ [][\A c \in CallIds : StartsWaiting(c)
            => (/\ calls'[c].retries = calls[c].attempts
                /\ calls'[c].retries <= retryCount
                /\ calls'[c].wakeAt = now + retryDelay * calls[c].attempts)]_vars
    /\ [][\A c \in CallIds : StopsWaiting(c)
            => (/\ now >= calls[c].wakeAt
                /\ calls'[c].pc = "fetching"
                /\ calls'[c].attempts = calls[c].attempts + 1)]_vars
    /\ [](\A c \in CallIds : calls[c].pc = "backoff"
            => (calls[c].retries >= 1 /\ calls[c].retries <= retryCount))

C24_Witness ==
    /\ retryDelay = 1
    /\ retryCount >= 2
    /\ calls[1].pc = "backoff"
    /\ calls[1].retries = 2
    /\ calls[1].wakeAt = now + 2
    /\ now >= 1

\* ---- C25 ---------------------------------------------------------------
\* C25 as stated: if the first k - 1 attempts of an execute() fail and
\* attempt k succeeds, k <= retryCount + 1, then exactly k network attempts
\* were made, the call resolves as success with the payload of that
\* response, error is null afterwards and onError was not invoked for it.
C25_Original ==
    [][\A c \in CallIds : Succeeds(c)
         => (/\ ret'.call = c
             /\ ret'.kind = "network"
             /\ ret'.attempts = ret'.retries + 1
             /\ ret'.attempts = calls[c].attempts
             /\ ret'.attempts <= retryCount + 1
             /\ data' = ret'.data
             /\ calls[c].nError = 0
             /\ calls'[c].nError = 0
             /\ error' = Null)]_vars

\* ---- C27 ---------------------------------------------------------------
\* C27 as stated: after any execute() resolves as success, from the network
\* or from the cache, error is null, also when calls overlap.
C27_Original ==
    [][((\E c \in CallIds : Succeeds(c)) \/ ExecuteHits) => error' = Null]_vars

\* ---- C26 ---------------------------------------------------------------
Outcomes == {"success", "failed", "aborted"}

\* the kind of value a call with this outcome returns or throws
KindOf(pc) ==
    IF pc = "success" THEN "network"
    ELSE IF pc = "failed" THEN "throw"
    ELSE "aborted"

\* the timer of the call is set to a time the clock of the model never shows
TimerBeyondHorizon(c) == calls[c].pc = "backoff" /\ calls[c].wakeAt > MaxTime

\* C26: every execute() that misses the cache eventually resolves, provided
\* every network attempt eventually completes and every backoff timer
\* eventually fires, and it resolves with exactly one of the outcomes
\* success, exhausted failure and aborted: it takes one of them when it
\* leaves the loop and keeps it.
C26_Resolves ==
    /\ \A c \in CallIds :
          InFlight(c) ~> (calls[c].pc \in Outcomes \/ TimerBeyondHorizon(c))
    /\ [][\A c \in CallIds : (InFlight(c) /\ ~InFlight(c)')
            => (/\ calls'[c].pc \in Outcomes
                /\ ret'.call = c
                /\ ret'.kind = KindOf(calls'[c].pc))]_vars
    /\ [][\A c \in CallIds : calls[c].pc \in Outcomes
            => calls'[c] = calls[c]]_vars

C26_Witness ==
    /\ retryDelay = 1
    /\ calls[1].pc = "success"
    /\ calls[2].pc = "failed"
    /\ ret.call = 1
    /\ ret.kind = "network"
    /\ ret.attempts = 2
    /\ now >= 1


\* ---- C28 ---------------------------------------------------------------
\* C28 as stated: when two execute() calls with the same cache key overlap,
\* cacheEnabled is true and both succeed, the entry left after both have
\* completed holds the payload of the later-started call, whatever the order
\* in which the responses arrive. Here c started first and completes last:
\* the entry the later-started call d left must keep its payload.
C28_Original ==
    [][\A c, d \in CallIds :
         (/\ c < d
          /\ d = nCalls
          /\ cache
          /\ calls[d].pc = "success"
          /\ HasEntry
          /\ Succeeds(c))
         => (/\ HasEntry'
             /\ cacheRef'[getCacheKey].data = cacheRef[getCacheKey].data)]_vars


\* ---- C29 ---------------------------------------------------------------
\* C29: an execute() that ends in terminal failure creates no CacheStore
\* entry and does not change the payload: the step in which it fails leaves
\* the Map and data as they were, so a payload loaded by an earlier success
\* stays in place next to the new error.
C29_FailureKeepsPayload ==
    [][\A c \in CallIds : FailsTerminally(c)
         => (/\ cacheRef' = cacheRef
             /\ data' = data
             /\ error' # Null)]_vars

C29_Witness ==
    /\ calls[1].pc = "success"
    /\ calls[2].pc = "failed"
    /\ ret.call = 2
    /\ ret.kind = "throw"
    /\ data \in Bodies
    /\ error # Null
    /\ ~HasEntry
    /\ ~cache


\* ---- C30 ---------------------------------------------------------------
\* C30: onSuccess is invoked exactly once for each execute() that succeeds
\* over the network, with the payload and the response the call returns, in
\* the step that has written data and, with cacheEnabled, the CacheStore
\* entry; it is never invoked for an execute() answered from the cache, nor
\* for one that resolves as aborted or as terminal failure, nor while the
\* call is in flight.
C30_OnSuccessOnce ==
    /\ [][\A c \in CallIds : Succeeds(c)
            => (/\ calls[c].nSuccess = 0
                /\ calls'[c].nSuccess = 1
                /\ ret'.call = c
                /\ ret'.kind = "network"
                /\ ret'.status = calls[c].response
                /\ Ok(ret'.status)
                /\ data' = ret'.data
                /\ cache => (/\ HasEntry'
                             /\ cacheRef'[getCacheKey].data = ret'.data))]_vars
    /\ [][\A c \in CallIds : calls'[c].nSuccess # calls[c].nSuccess
            => Succeeds(c)]_vars
    /\ [](\A c \in CallIds : calls[c].nSuccess = IF calls[c].pc = "success"
                                                 THEN 1 ELSE 0)

C30_Witness ==
    /\ calls[1].pc = "success"
    /\ calls[1].nSuccess = 1
    /\ calls[2].pc \in {"hit", "failed", "aborted"}
    /\ calls[2].nSuccess = 0
    /\ ret.call = 2
====
